---------------------------- MODULE Spec2Model ----------------------------
(***************************************************************************)
(* Operation (unify_api_v1/models/operation.py): a client-side snapshot of *)
(* a server-side long-running operation, with poll / wait / succeeded /    *)
(* apply_options.                                                          *)
(*                                                                         *)
(* Python objects live on a heap: heap[r] is the Operation instance with   *)
(* reference r.  heap[Self] is the receiver of the call; every successful  *)
(* poll() allocates one new instance, so heap also is the sequence of      *)
(* snapshots the running call has observed (receiver first, then each poll *)
(* result in order).                                                       *)
(*                                                                         *)
(* Time is a discrete wall clock `now`.  It advances inside sleep() (by at *)
(* least the requested interval) and inside poll() (the HTTP round trip).  *)
(* poll_interval_seconds is a time interval and is taken non-negative.     *)
(* Only differences of clock readings are read, so each call is taken to   *)
(* start at clock reading 0.                                               *)
(***************************************************************************)
EXTENDS Integers, Sequences, FiniteSets, TLC

\* ------------------------------------------------------------ bounds
MaxInterval == 1      \* largest explicit poll_interval_seconds
MaxTimeout  == 3      \* largest timeout_seconds
MaxJitter   == 1      \* sleep(n) may oversleep by up to this much
MaxPollDur  == 1      \* longest HTTP round trip of one poll

\* wait(self, poll_interval_seconds=3, ...)
DefaultPollInterval == 3

\* polls one call may issue before the model stops following it
MaxPolls == MaxTimeout + 1
MaxSleep == IF MaxInterval > DefaultPollInterval THEN MaxInterval + MaxJitter
            ELSE DefaultPollInterval + MaxJitter
\* the clock saturates here; elapsed time can still exceed every timeout
MaxElapsed == MaxTimeout + MaxSleep + MaxPollDur + 1
MaxNow == MaxElapsed

Min(a, b) == IF a < b THEN a ELSE b

\* ------------------------------------------------------------ values
\* Python's None / a given value, for timeout_seconds=None
None == << >>
Some(v) == << v >>

PollIntervals == (0 .. MaxInterval) \cup {DefaultPollInterval}
Timeouts == {None} \cup {Some(t) : t \in 0 .. MaxTimeout}

\* OperationState enum of common_pb2: number n is OperationStateNames[n + 1].
\* wait names five of the states; the enum has one more.
OperationStateNames ==
    << "UNKNOWN", "PENDING", "RUNNING", "CANCELED", "SUCCEEDED", "FAILED" >>

StateNames == { OperationStateNames[i] : i \in DOMAIN OperationStateNames }

\* OperationStateProto.Name(number)
OperationStateName(n) == OperationStateNames[n + 1]

\* the JSON decoder's name -> number
OperationStateValue(name) ==
    CHOOSE n \in 0 .. (Len(OperationStateNames) - 1) : OperationStateNames[n + 1] = name

ApiPath == "operations/1"

\* the bodies client.get(api_path).json() can deliver for the operation
OperationJsons(path) ==
    { [ relativeId  |-> path,
        type        |-> "SPARK",
        description |-> "Materialize views",
        status      |-> [ state |-> s ] ] : s \in StateNames }

\* what client.get / the decoder raise
PollErrors == { "TransportError", "DecodeError" }

\* line 111 / line 113
UnresolvedStates == { "PENDING", "RUNNING" }
ResolvedStates   == { "CANCELED", "SUCCEEDED", "FAILED" }

Self == 1

VARIABLES
    heap,                   \* Seq of Operation instances; heap[Self] the receiver
    pc,                     \* "idle" | "while" | "if" | "poll" | "returned" | "raised"
    entry,                  \* method the caller invoked, "none" when idle
    asynchronous,           \* apply_options' argument
    poll_interval_seconds,  \* wait's argument
    timeout_seconds,        \* wait's argument, None or Some(t)
    started,                \* wait's local: now() at entry
    op,                     \* wait's local: reference of the current snapshot
    now,                    \* the wall clock
    ret,                    \* reference returned by poll/wait/apply_options, 0 if none
    ret_bool,               \* value returned by succeeded()
    exc,                    \* exception the call ended with, "none" if none
    sleeps,                 \* sleep() calls of the running call
    polls,                  \* poll() calls of the running call (failed ones too)
    poll_raised             \* exception the last poll() raised, "none" if it answered

vars == << heap, pc, entry, asynchronous, poll_interval_seconds, timeout_seconds,
           started, op, now, ret, ret_bool, exc, sleeps, polls, poll_raised >>

\* ------------------------------------------------------------ Operation
\* Operation.from_json(client, resource_json): decode into a new instance
from_json(resource_json) ==
    [ api_path |-> resource_json.relativeId,
      data     |-> [ type        |-> resource_json.type,
                     description |-> resource_json.description,
                     status      |-> [ state |-> OperationStateValue(resource_json.status.state) ] ] ]

type(o) == o.data.type
description(o) == o.data.description
status(o) == o.data.status

\* return OperationStateProto.Name(self.status.state)
state(o) == OperationStateName(status(o).state)

\* a succeeded() that is true of every resolved state
succeeded_if_resolved(o) == state(o) \in ResolvedStates

\* return self.state == "SUCCEEDED"
succeeded(o) == state(o) = "SUCCEEDED"

\* a poll that also overwrote the instance it was called on
poll_in_place(h, r, op_json) ==
    Append([h EXCEPT ![r] = from_json(op_json)], from_json(op_json))

\* r.poll() on heap h, the server answering op_json: the heap afterwards.
\* The result is a new instance, at reference Len(h) + 1.
poll(h, r, op_json) == Append(h, from_json(op_json))

\* the test treating a missing timeout as a timeout of one second
while_ignoring_none(t, clock, start) ==
    IF t = None THEN clock - start < 1 ELSE clock - start < t[1]

\* the test with <= for <
while_cond_inclusive(t, clock, start) ==
    IF t = None THEN TRUE ELSE clock - start <= t[1]

\* the test giving up one second early
while_cond_early(t, clock, start) ==
    IF t = None THEN TRUE ELSE clock - start + 1 < t[1]

\* the test with the subtraction the wrong way round
while_cond_flipped(t, clock, start) ==
    IF t = None THEN TRUE ELSE start - clock < t[1]

\* while timeout_seconds is None or now() - started < timeout_seconds
while_cond(t, clock, start) ==
    IF t = None THEN TRUE ELSE clock - start < t[1]

\* a loop body that sleeps on PENDING alone and returns on everything else
branch_loose(s) ==
    IF s \in { "PENDING" } THEN "sleep" ELSE "return"

\* a first list without "RUNNING": RUNNING falls through to the poll
branch_skip_running(s) ==
    IF s \in { "PENDING" } THEN "sleep"
    ELSE IF s \in ResolvedStates THEN "return"
    ELSE "skip"

\* an else branch that sleeps too
branch_else_sleep(s) ==
    IF s \in ResolvedStates THEN "return" ELSE "sleep"

\* the if / elif of lines 111-114: what the loop body does with a state
branch(s) ==
    IF s \in UnresolvedStates THEN "sleep"
    ELSE IF s \in ResolvedStates THEN "return"
    ELSE "skip"

\* the clock after d more seconds
Tick(d) == Min(now + d, MaxNow)

SleepDurations(p) == p .. (p + MaxJitter)
PollDurations == 0 .. MaxPollDur
PositivePollDurations == 1 .. MaxPollDur

Elapsed == now - started

\* ------------------------------------------------------------ Init
Receivers == { from_json(j) : j \in OperationJsons(ApiPath) }

Init ==
    /\ heap \in { << r >> : r \in Receivers }
    /\ pc = "idle"
    /\ entry = "none"
    /\ asynchronous = FALSE
    /\ poll_interval_seconds = DefaultPollInterval
    /\ timeout_seconds = None
    /\ now = 0
    /\ started = now
    /\ op = Self
    /\ ret = 0
    /\ ret_bool = FALSE
    /\ exc = "none"
    /\ sleeps = 0
    /\ polls = 0
    /\ poll_raised = "none"

\* ------------------------------------------------------------ wait
\* lines 107-108, with the arguments bound
wait_entry(p, t) ==
    /\ poll_interval_seconds' = p
    /\ timeout_seconds' = t
    /\ started' = now
    /\ op' = Self
    /\ pc' = "while"
    /\ UNCHANGED << poll_raised, heap, now, ret, ret_bool, exc, sleeps, polls >>

\* op.wait(poll_interval_seconds=p, timeout_seconds=t)
call_wait ==
    /\ pc = "idle"
    /\ \E p \in PollIntervals, t \in Timeouts : wait_entry(p, t)
    /\ entry' = "wait"
    /\ UNCHANGED asynchronous

\* line 109 true: into the loop body
while_enter ==
    /\ pc = "while"
    /\ while_cond(timeout_seconds, now, started)
    /\ pc' = "if"
    /\ UNCHANGED << poll_raised, heap, entry, asynchronous, poll_interval_seconds, timeout_seconds,
                    started, op, now, ret, ret_bool, exc, sleeps, polls >>

\* line 109 false: lines 116-118, raise TimeoutError
while_exit ==
    /\ pc = "while"
    /\ ~ while_cond(timeout_seconds, now, started)
    /\ pc' = "raised"
    /\ exc' = "TimeoutError"
    /\ UNCHANGED << poll_raised, heap, entry, asynchronous, poll_interval_seconds, timeout_seconds,
                    started, op, now, ret, ret_bool, sleeps, polls >>

\* lines 111-112: sleep(poll_interval_seconds)
if_sleep ==
    /\ pc = "if"
    /\ branch(state(heap[op])) = "sleep"
    /\ \E d \in SleepDurations(poll_interval_seconds) : now' = Tick(d)
    /\ sleeps' = sleeps + 1
    /\ pc' = "poll"
    /\ UNCHANGED << poll_raised, heap, entry, asynchronous, poll_interval_seconds, timeout_seconds,
                    started, op, ret, ret_bool, exc, polls >>

\* lines 113-114: return op
if_return ==
    /\ pc = "if"
    /\ branch(state(heap[op])) = "return"
    /\ ret' = op
    /\ pc' = "returned"
    /\ UNCHANGED << poll_raised, heap, entry, asynchronous, poll_interval_seconds, timeout_seconds,
                    started, op, now, ret_bool, exc, sleeps, polls >>

\* neither list holds the state: fall through to line 115
if_skip ==
    /\ pc = "if"
    /\ branch(state(heap[op])) = "skip"
    /\ pc' = "poll"
    /\ UNCHANGED << poll_raised, heap, entry, asynchronous, poll_interval_seconds, timeout_seconds,
                    started, op, now, ret, ret_bool, exc, sleeps, polls >>

\* a wait that swallowed the exception and went round the loop again
on_poll_error_retry(e) == [ pc |-> "while", exc |-> "none" ]

\* wait has no try/except: an exception of op.poll() ends wait with it
on_poll_error(e) == [ pc |-> "raised", exc |-> e ]

\* line 115, op = op.poll(), the poll answering after d seconds
wait_poll_ok(D) ==
    /\ pc = "poll"
    /\ polls < MaxPolls
    /\ \E d \in D : now' = Tick(d)
    /\ \E j \in OperationJsons(heap[op].api_path) : heap' = poll(heap, op, j)
    /\ op' = Len(heap) + 1
    /\ polls' = polls + 1
    /\ pc' = "while"
    /\ poll_raised' = "none"
    /\ UNCHANGED << entry, asynchronous, poll_interval_seconds, timeout_seconds,
                    started, ret, ret_bool, exc, sleeps >>

\* line 115, op.poll() raising
wait_poll_raises(D) ==
    /\ pc = "poll"
    /\ polls < MaxPolls
    /\ \E d \in D : now' = Tick(d)
    /\ polls' = polls + 1
    /\ \E e \in PollErrors :
          /\ poll_raised' = e
          /\ pc' = on_poll_error(e).pc
          /\ exc' = on_poll_error(e).exc
    /\ UNCHANGED << heap, entry, asynchronous, poll_interval_seconds, timeout_seconds,
                    started, op, ret, ret_bool, sleeps >>

\* ------------------------------------------------------------ other methods
\* an apply_options that waited whatever `asynchronous` says
apply_options_ignoring_flag(a, p, t) ==
    wait_entry(p, t)

\* lines 46-48
apply_options(a, p, t) ==
    IF a
    THEN /\ ret' = Self
         /\ pc' = "returned"
         /\ UNCHANGED << heap, poll_interval_seconds, timeout_seconds, started, op,
                         now, ret_bool, exc, sleeps, polls, poll_raised >>
    ELSE wait_entry(p, t)

\* op.apply_options(asynchronous=a, poll_interval_seconds=p, timeout_seconds=t)
call_apply_options ==
    /\ pc = "idle"
    /\ \E a \in BOOLEAN, p \in PollIntervals, t \in Timeouts :
          /\ asynchronous' = a
          /\ apply_options(a, p, t)
    /\ entry' = "apply_options"

\* op.poll() called directly, answering
call_poll_ok ==
    /\ pc = "idle"
    /\ \E d \in PollDurations : now' = Tick(d)
    /\ \E j \in OperationJsons(heap[Self].api_path) : heap' = poll(heap, Self, j)
    /\ ret' = Len(heap) + 1
    /\ polls' = polls + 1
    /\ pc' = "returned"
    /\ entry' = "poll"
    /\ poll_raised' = "none"
    /\ UNCHANGED << asynchronous, poll_interval_seconds, timeout_seconds, started, op,
                    ret_bool, exc, sleeps >>

\* op.poll() called directly, raising
call_poll_raises ==
    /\ pc = "idle"
    /\ \E d \in PollDurations : now' = Tick(d)
    /\ \E e \in PollErrors : poll_raised' = e /\ exc' = e
    /\ polls' = polls + 1
    /\ pc' = "raised"
    /\ entry' = "poll"
    /\ UNCHANGED << heap, asynchronous, poll_interval_seconds, timeout_seconds, started,
                    op, ret, ret_bool, sleeps >>

\* op.succeeded()
call_succeeded ==
    /\ pc = "idle"
    /\ ret_bool' = succeeded(heap[Self])
    /\ pc' = "returned"
    /\ entry' = "succeeded"
    /\ UNCHANGED << poll_raised, heap, asynchronous, poll_interval_seconds, timeout_seconds, started,
                    op, now, ret, exc, sleeps, polls >>

\* The call is over; the caller goes on to its next call on the same receiver.
\* The instances the last call allocated are dropped, its books are closed
\* and the clock is read from the start of the next call.
next_call ==
    /\ pc \in { "returned", "raised" }
    /\ heap' = << heap[Self] >>
    /\ pc' = "idle"
    /\ entry' = "none"
    /\ asynchronous' = FALSE
    /\ poll_interval_seconds' = DefaultPollInterval
    /\ timeout_seconds' = None
    /\ now' = 0
    /\ started' = 0
    /\ op' = Self
    /\ ret' = 0
    /\ ret_bool' = FALSE
    /\ exc' = "none"
    /\ sleeps' = 0
    /\ polls' = 0
    /\ poll_raised' = "none"

\* ------------------------------------------------------------ specifications
Calls ==
    \/ call_wait
    \/ call_apply_options
    \/ call_poll_ok
    \/ call_poll_raises
    \/ call_succeeded
    \/ next_call

WaitSteps(D) ==
    \/ while_enter
    \/ while_exit
    \/ if_sleep
    \/ if_return
    \/ if_skip
    \/ wait_poll_ok(D)
    \/ wait_poll_raises(D)

Next == Calls \/ WaitSteps(PollDurations)

Spec == Init /\ [][Next]_vars

\* Every poll takes a positive time on the clock and the interpreter keeps
\* running the call it is in.
NextLive == Calls \/ WaitSteps(PositivePollDurations)

LiveSpec == Init /\ [][NextLive]_vars /\ WF_vars(WaitSteps(PositivePollDurations))

\* ------------------------------------------------------------ vocabulary
InWait == entry = "wait" \/ (entry = "apply_options" /\ ~ asynchronous)
Returned == pc = "returned"
Raised(e) == pc = "raised" /\ exc = e
Ended == pc \in { "returned", "raised" }
TimeoutSet == timeout_seconds # None

\* the states of the snapshots observed so far, in order
Observed == [ i \in DOMAIN heap |-> state(heap[i]) ]

TypeOK ==
    /\ pc \in { "idle", "while", "if", "poll", "returned", "raised" }
    /\ entry \in { "none", "wait", "apply_options", "poll", "succeeded" }
    /\ poll_interval_seconds \in PollIntervals
    /\ timeout_seconds \in Timeouts
    /\ now \in 0 .. MaxNow
    /\ started \in 0 .. now
    /\ op \in DOMAIN heap
    /\ ret \in 0 .. Len(heap)
    /\ exc \in { "none", "TimeoutError" } \cup PollErrors
    /\ sleeps \in 0 .. (MaxPolls + 1)
    /\ polls \in 0 .. MaxPolls
    /\ poll_raised \in { "none" } \cup PollErrors
    /\ \A i \in DOMAIN heap : state(heap[i]) \in StateNames

\* ------------------------------------------------------------ C1
\* C1: whenever wait returns normally, the Operation it returns is in one of
\* CANCELED, SUCCEEDED, FAILED, it is the snapshot wait observed last, and no
\* snapshot observed before it (the receiver, earlier poll results) was resolved.
C1_ReturnsFirstResolved ==
    (InWait /\ Returned) =>
        /\ ret = op
        /\ ret = Len(heap)
        /\ state(heap[ret]) \in ResolvedStates
        /\ \A i \in 1 .. (ret - 1) : state(heap[i]) \notin ResolvedStates

\* wait returned after polling at least twice, one snapshot on the way being
\* in a state neither list names
C1_Witness ==
    /\ InWait /\ Returned
    /\ polls >= 2
    /\ \E i \in DOMAIN heap : state(heap[i]) \notin (UnresolvedStates \cup ResolvedStates)

\* ------------------------------------------------------------ C5
\* C5: with timeout_seconds None, wait never raises TimeoutError, however much
\* time has elapsed and however many iterations have run: it has returned a
\* resolved Operation, has ended with the error of a poll, or is still looping.
C5_NoTimeoutErrorWithoutTimeout ==
    (InWait /\ ~ TimeoutSet) =>
        /\ ~ Raised("TimeoutError")
        /\ Returned => state(heap[ret]) \in ResolvedStates
        /\ pc = "raised" => (exc \in PollErrors /\ exc = poll_raised)

\* without a timeout, wait is in the loop body once more after more time than
\* any timeout of the model and several polls
C5_Witness ==
    /\ InWait /\ ~ TimeoutSet
    /\ pc = "if"
    /\ Elapsed > MaxTimeout
    /\ polls >= 2

\* ------------------------------------------------------------ C7
\* C7: an Operation is an immutable snapshot: no step of poll, wait,
\* apply_options or succeeded changes the state, type, description, status or
\* api_path of an instance that exists, the receiver first of all, whatever
\* the server answers; a fresher view is a new instance.
C7_SnapshotsImmutable ==
    [][ \A r \in (DOMAIN heap) \cap (DOMAIN heap') :
            /\ state(heap'[r]) = state(heap[r])
            /\ type(heap'[r]) = type(heap[r])
            /\ description(heap'[r]) = description(heap[r])
            /\ status(heap'[r]) = status(heap[r])
            /\ heap'[r].api_path = heap[r].api_path ]_vars

\* a call is over that polled the server in a state other than the receiver's
C7_Witness ==
    /\ Ended
    /\ polls >= 1
    /\ state(heap[Len(heap)]) # state(heap[Self])

\* ------------------------------------------------------------ C2
NamedStates == UnresolvedStates \cup ResolvedStates
AllUnresolved == \A i \in DOMAIN heap : state(heap[i]) \in UnresolvedStates
UnresolvedSeen == Cardinality({ i \in DOMAIN heap : state(heap[i]) \in UnresolvedStates })
TimeoutValue == timeout_seconds[1]

\* C2: when the sequence of states wait has observed (the receiver's, then
\* each poll result's) ends in a terminal state, wait, once over, has returned
\* an Operation in that terminal state, having slept only on the unresolved
\* snapshots before it; stated for every poll_interval_seconds and every
\* timeout_seconds.
C2_ReturnsTerminalState ==
    (InWait /\ Ended /\ state(heap[Len(heap)]) \in ResolvedStates) =>
        /\ Returned
        /\ state(heap[ret]) = state(heap[Len(heap)])
        /\ sleeps = UnresolvedSeen

\* ------------------------------------------------------------ C3
\* C3: wait on a receiver that is already CANCELED, SUCCEEDED or FAILED, once
\* over, has returned the receiver itself with zero sleeps and zero polls;
\* stated for every argument of wait.
C3_ResolvedReceiverReturnsAtOnce ==
    (InWait /\ state(heap[Self]) \in ResolvedStates) =>
        /\ sleeps = 0
        /\ polls = 0
        /\ Ended => (Returned /\ ret = Self)

\* ------------------------------------------------------------ C6
\* C6: whenever wait raises TimeoutError, the snapshot it holds (the receiver
\* or the last poll result) is PENDING or RUNNING, never CANCELED, SUCCEEDED
\* or FAILED.
C6_TimeoutErrorOnlyWhenUnresolved ==
    (InWait /\ Raised("TimeoutError") /\ state(heap[op]) \in NamedStates) =>
        state(heap[op]) \in UnresolvedStates

\* ------------------------------------------------------------ C8
\* C8: when a poll issued inside wait raises, wait is over at once with that
\* same exception: it has not gone on to sleep, poll or return, and the
\* exception is not a TimeoutError, whatever the clock says.
C8_PollErrorEndsWait ==
    (InWait /\ poll_raised # "none") =>
        /\ Raised(poll_raised)
        /\ exc \in PollErrors
        /\ ret = 0

\* a poll of wait raised after an earlier one had answered and with the
\* timeout already used up
C8_Witness ==
    /\ InWait /\ poll_raised # "none"
    /\ polls >= 2
    /\ TimeoutSet /\ Elapsed >= TimeoutValue

\* ------------------------------------------------------------ C9
\* C9: apply_options(asynchronous=True) returns the receiver itself with zero
\* sleeps and zero polls, whatever its state; apply_options(asynchronous=False)
\* enters wait exactly as a call of wait with the same options does (from where
\* the two run the same steps), and when it returns normally the Operation it
\* returns is resolved.
C9_ApplyOptions ==
    /\ [] ( (entry = "apply_options" /\ asynchronous) =>
               /\ Returned /\ ret = Self /\ exc = "none"
               /\ sleeps = 0 /\ polls = 0 /\ Len(heap) = 1 )
    /\ [] ( (entry = "apply_options" /\ ~ asynchronous /\ Returned) =>
               state(heap[ret]) \in ResolvedStates )
    /\ [][ (pc = "idle" /\ entry' = "apply_options" /\ ~ asynchronous') =>
               wait_entry(poll_interval_seconds', timeout_seconds') ]_vars

\* apply_options(asynchronous=False, timeout_seconds=T) has returned what its
\* wait got from a poll
C9_Witness ==
    /\ entry = "apply_options" /\ ~ asynchronous /\ Returned
    /\ TimeoutSet
    /\ polls >= 1

\* ------------------------------------------------------------ C10
\* C10 as stated: with timeout_seconds = T, wait is over with elapsed time not
\* above T, for every poll_interval_seconds and every duration of sleeps and polls.
C10_BlocksAtMostTimeout ==
    (InWait /\ TimeoutSet /\ (Returned \/ Raised("TimeoutError"))) =>
        Elapsed <= TimeoutValue

\* C10 as amended: with timeout_seconds = T, wait starts an iteration only at
\* an elapsed time below T. So it returns at an elapsed time below T, it raises
\* TimeoutError at an elapsed time of T or more, and whenever it is over the
\* elapsed time is below T plus the duration of one sleep and one poll (those
\* of its last iteration).
C10_BlocksAtMostTimeoutPlusOneIteration ==
    (InWait /\ TimeoutSet /\ Ended) =>
        /\ Returned => Elapsed < TimeoutValue
        /\ Raised("TimeoutError") => Elapsed >= TimeoutValue
        /\ Elapsed < TimeoutValue + (poll_interval_seconds + MaxJitter) + MaxPollDur

\* wait raised TimeoutError later than T, after a sleep and a poll
C10_Witness ==
    /\ InWait /\ TimeoutSet /\ Raised("TimeoutError")
    /\ Elapsed > TimeoutValue
    /\ polls >= 1

\* ------------------------------------------------------------ C4
C4_Case == InWait /\ TimeoutSet /\ AllUnresolved /\ poll_raised = "none"

\* C4: with timeout_seconds = T, every observed snapshot PENDING or RUNNING
\* and no poll raising, wait never returns, raises TimeoutError only at an
\* elapsed time of T or more, and does raise it in the end.
C4_UnresolvedTimesOut ==
    /\ [] ( C4_Case => ( /\ ~ Returned
                         /\ Raised("TimeoutError") => Elapsed >= TimeoutValue ) )
    /\ ( C4_Case ~> ( Raised("TimeoutError") \/ ~ C4_Case ) )

\* wait raised TimeoutError after two polls that both answered unresolved
C4_Witness ==
    /\ C4_Case /\ Raised("TimeoutError")
    /\ polls >= 2

\* ------------------------------------------------------------ C11
C11_Case ==
    /\ InWait /\ TimeoutSet /\ AllUnresolved
    /\ poll_interval_seconds > 0
    /\ Raised("TimeoutError")

\* C11 as stated: with the server unresolved throughout, timeout_seconds = T
\* and poll_interval_seconds = p > 0, wait has issued at least floor(T / p)
\* polls, give or take one, when it raises TimeoutError.
C11_PollsAtLeastFloor ==
    C11_Case => polls >= (TimeoutValue \div poll_interval_seconds) - 1

\* C11 as amended: in that case wait has issued at most ceil(T / p) polls,
\* at least one if T > 0, and at least T divided by the duration of its
\* longest iteration (one sleep, of p or more, and one poll).
C11_PollsBetween ==
    C11_Case =>
        /\ polls <= (TimeoutValue + poll_interval_seconds - 1) \div poll_interval_seconds
        /\ TimeoutValue > 0 => polls >= 1
        /\ polls * (poll_interval_seconds + MaxJitter + MaxPollDur) >= TimeoutValue

\* TimeoutError after a single poll although floor(T / p) is 3
C11_Witness ==
    /\ C11_Case
    /\ TimeoutValue \div poll_interval_seconds = 3
    /\ polls = 1

\* ------------------------------------------------------------ C12
\* C12: succeeded() returns true exactly when the receiver's state is
\* SUCCEEDED (false for PENDING, RUNNING, CANCELED and FAILED), reading the
\* snapshot as it is: no poll, no sleep, no time spent, no new instance.
C12_SucceededIffSucceeded ==
    entry = "succeeded" =>
        /\ Returned /\ exc = "none"
        /\ ret_bool <=> (state(heap[Self]) = "SUCCEEDED")
        /\ state(heap[Self]) \in { "PENDING", "RUNNING", "CANCELED", "FAILED" } => ~ ret_bool
        /\ polls = 0 /\ sleeps = 0 /\ now = 0 /\ Len(heap) = 1

\* succeeded() has answered false on a FAILED receiver
C12_Witness ==
    /\ entry = "succeeded" /\ Returned
    /\ state(heap[Self]) = "FAILED"
    /\ ~ ret_bool

\* ------------------------------------------------------------ C13
\* the observed states are k >= 0 unresolved ones followed by a resolved one
C13_Case ==
    /\ InWait /\ ~ TimeoutSet /\ poll_raised = "none"
    /\ state(heap[Len(heap)]) \in ResolvedStates
    /\ \A i \in 1 .. (Len(heap) - 1) : state(heap[i]) \in UnresolvedStates

\* C13: without timeout and without a poll failing, once wait has observed k
\* unresolved states followed by a resolved one it has issued exactly k polls
\* and k sleeps, it issues no more, and it returns the resolved snapshot.
C13_ExactlyKPollsAndSleeps ==
    /\ [] ( C13_Case =>
               /\ polls = Len(heap) - 1
               /\ sleeps = Len(heap) - 1
               /\ pc \in { "while", "if", "returned" }
               /\ Returned => ret = Len(heap) )
    /\ ( C13_Case ~> (C13_Case /\ Returned) )

\* the example: [PENDING, PENDING, RUNNING, SUCCEEDED] with interval 0
C13_Witness ==
    /\ C13_Case /\ Returned
    /\ poll_interval_seconds = 0
    /\ Observed = << "PENDING", "PENDING", "RUNNING", "SUCCEEDED" >>
    /\ polls = 3
    /\ state(heap[ret]) = "SUCCEEDED"

\* ------------------------------------------------------------ C14
AllNamed == \A i \in DOMAIN heap : state(heap[i]) \in NamedStates

\* C14: while every observed state is one of the five named ones, wait
\* alternates sleep and poll. A sleep starts only in the loop body with as
\* many sleeps as polls behind it and lasts poll_interval_seconds or more; a
\* poll starts only after exactly one more sleep than polls; after a sleep the
\* next thing wait does is that poll; and op is the newest snapshot, the one
\* the poll is issued on.
C14_SleepPollAlternate ==
    /\ [] ( (InWait /\ AllNamed) =>
               /\ op = Len(heap)
               /\ pc = "poll" => sleeps = polls + 1
               /\ pc # "poll" => sleeps = polls )
    /\ [][ (InWait /\ AllNamed /\ sleeps' = sleeps + 1) =>
               /\ pc = "if" /\ pc' = "poll"
               /\ polls' = polls
               /\ now' >= Min(now + poll_interval_seconds, MaxNow) ]_vars
    /\ [][ (InWait /\ AllNamed /\ pc = "poll") =>
               /\ polls' = polls + 1
               /\ sleeps' = sleeps
               /\ pc' \in { "while", "raised" }
               /\ pc' = "while" => (op' = Len(heap') /\ Len(heap') = Len(heap) + 1) ]_vars

\* wait is back at its loop test after three sleeps and three polls
C14_Witness ==
    /\ InWait /\ AllNamed
    /\ pc = "while"
    /\ sleeps = 3 /\ polls = 3

C16_Case ==
    /\ InWait /\ ~ TimeoutSet
    /\ pc \in { "if", "poll" }
    /\ state(heap[op]) \notin NamedStates

\* C16 as stated: once wait, without timeout, has observed a state outside
\* the five named ones, it performs no sleep and no poll any more and it
\* never returns.
C16_NoSleepNoPollNoReturn ==
    [][ (InWait /\ ~ TimeoutSet /\ ~ AllNamed /\ ~ Ended) =>
            /\ sleeps' = sleeps
            /\ polls' = polls
            /\ pc' # "returned" ]_vars

\* C16 as amended: on a snapshot whose state is outside the five named ones
\* wait, without timeout, does not sleep and does not return: it goes straight
\* to line 115 and polls again, without any time passing in between. It goes
\* on with the snapshot that poll returns as with any other, so it sleeps
\* again once a poll answers PENDING or RUNNING and returns once one answers a
\* resolved state; it spins, polling back to back, only for as long as the
\* server keeps answering such a state.
C16_UnnamedStatePollsAtOnce ==
    /\ [][ (C16_Case /\ pc = "if") =>
               /\ pc' = "poll"
               /\ sleeps' = sleeps /\ polls' = polls
               /\ now' = now /\ ret' = 0 ]_vars
    /\ [][ (C16_Case /\ pc = "poll") =>
               /\ polls' = polls + 1
               /\ sleeps' = sleeps
               /\ pc' \in { "while", "raised" }
               /\ pc' = "while" => op' = op + 1 ]_vars

\* wait returned a resolved snapshot after two polls that followed unnamed
\* states, without a single sleep
C16_Witness ==
    /\ InWait /\ ~ TimeoutSet /\ Returned
    /\ ~ AllNamed
    /\ polls = 2 /\ sleeps = 0

\* ------------------------------------------------------------ C17
\* C17: with timeout_seconds set, every poll taking a positive time and every
\* sleep and poll completing, wait always ends, whatever the server answers
\* (states outside the five included): it returns a resolved Operation, raises
\* TimeoutError, or ends with the exception of a poll.
C17_WaitTerminates ==
    /\ ( (InWait /\ TimeoutSet) ~> (InWait /\ TimeoutSet /\ Ended) )
    /\ [] ( (InWait /\ TimeoutSet /\ Ended) =>
               \/ Returned /\ state(heap[ret]) \in ResolvedStates
               \/ Raised("TimeoutError")
               \/ pc = "raised" /\ exc \in PollErrors /\ exc = poll_raised )

\* wait ended with TimeoutError after polling, without a sleep, a server that
\* answered nothing but unnamed states
C17_Witness ==
    /\ InWait /\ TimeoutSet /\ Raised("TimeoutError")
    /\ \A i \in DOMAIN heap : state(heap[i]) \notin NamedStates
    /\ polls >= 2 /\ sleeps = 0

=============================================================================
